---- MODULE Spec2Model ----
(***************************************************************************)
(* Marker construction of hydra_ros/src/visualizer/visualizer_utilities.cpp *)
(* A behaviour is one call of one builder, which some builders follow by a *)
(* second call on the same graph and configs.  The step of the call draws  *)
(* its arguments, `call` records them and `out` holds what the builder     *)
(* returned (pc = "done"); `calls` counts the calls made and `first_out`   *)
(* keeps what the first of two calls returned.  makeLayerEdgeMarkers is    *)
(* modelled one loop iteration per step (edge_iter, marker), because its   *)
(* loop is what the termination and cursor properties are about.  `params` *)
(* is the parameter server behind the ros::NodeHandle and `gen` counts the *)
(* draws made from the function-local static std::mt19937 of               *)
(* makeTextMarker.                                                         *)
(***************************************************************************)
EXTENDS Integers, Sequences, FiniteSets, TLC

VARIABLES pc, call, out, edge_iter, marker, calls, first_out, params, gen

vars == <<pc, call, out, edge_iter, marker, calls, first_out, params, gen>>

----------------------------------------------------------------------------
(* Bounds of the model *)

\* largest insertion skip in a config
MaxSkip == 2
\* largest number of edges in a graph or a layer
MaxEdges == 3
\* largest number of nodes in a layer handed to a per-node builder
MaxNodes == 3
\* largest number of boundary points of a place
MaxBoundary == 4
\* distances and colormap limits range over -MaxDist..MaxDist and the specials
MaxDist == 2
\* largest number of segments makeLayerEdgeMarkers may hold while it runs
MaxSegs == 4
\* largest number of place nodes in a layer handed to makeMeshEdgesMarker
MaxMeshNodes == 2
\* largest number of mesh connections of the places of a layer
MaxConn == 3
\* mesh connection indices range over 0..MaxMeshIndex
MaxMeshIndex == 1

----------------------------------------------------------------------------
(* Generic helpers *)

Max(a, b) == IF a < b THEN b ELSE a

\* ceil(a / b) for a >= 0, b >= 1
CeilDiv(a, b) == (a + b - 1) \div b

\* sequences over S of length at most n
SeqsUpTo(S, n) == UNION {[1..m -> S] : m \in 0..n}

NumSegments(points) == Len(points) \div 2

RECURSIVE Repeat(_, _)
Repeat(x, n) == IF n = 0 THEN <<>> ELSE <<x>> \o Repeat(x, n - 1)

RECURSIVE BitOr(_, _)
\* bitwise or of two naturals
BitOr(a, b) ==
  IF a = 0 THEN b
  ELSE IF b = 0 THEN a
  ELSE Max(a % 2, b % 2) + 2 * BitOr(a \div 2, b \div 2)

RECURSIVE BitXor(_, _)
BitXor(a, b) ==
  IF a = 0 THEN b
  ELSE IF b = 0 THEN a
  ELSE ((a + b) % 2) + 2 * BitXor(a \div 2, b \div 2)

RECURSIVE PopCount(_)
PopCount(a) == IF a = 0 THEN 0 ELSE (a % 2) + PopCount(a \div 2)

----------------------------------------------------------------------------
(* Colors and points.                                                      *)
(* A Color is either the default-constructed Color(), a node's own color   *)
(* or a colormap lookup at ratio n/d.  makeColorMsg attaches the alpha,    *)
(* which is named by the config field it was read from.                    *)

DefaultColor == [n |-> 0, kind |-> "default", d |-> 1]

NodeColor(node) == [n |-> node, kind |-> "node", d |-> 1]

\* dsg_utils::interpolateColorMap(colors, ratio), ratio = n/d
interpolateColorMap(ratio) == [n |-> ratio.n, kind |-> "cmap", d |-> ratio.d]

\* dsg_utils::makeColorMsg(color, alpha)
makeColorMsg(color, alpha) ==
  [n |-> color.n, kind |-> color.kind, d |-> color.d, alpha |-> alpha]

\* a point: what it is a position of (k, n, i) and the layer whose z offset
\* was added to it (z = 0: none)
Point(k, n, i, z) == [n |-> n, k |-> k, i |-> i, z |-> z]

\* a Marker as the builders leave it
\* pose_z = 1: the pose was displaced by getZOffset(config, visualizer_config)
\* pose: the point pose.position was converted from (fillPoseWithIdentity
\* leaves the zero position); text, jitter: marker.text and the value drawn
\* for the label jitter (0: none)
NewMarker(shape, namespace, marker_id) ==
  [points |-> <<>>,
   color |-> [n |-> 0, kind |-> "unset", d |-> 1, alpha |-> "unset"],
   type |-> shape,
   ns |-> namespace,
   id |-> marker_id,
   pose_z |-> 0,
   colors |-> <<>>,
   pose |-> [n |-> 0, k |-> "zero", i |-> 0, z |-> 0],
   text |-> <<>>,
   jitter |-> 0]

EmptyGeom == [points |-> <<>>, colors |-> <<>>]

\* append the points and colors of g to marker m
Append2(m, g) ==
  [m EXCEPT !.points = @ \o g.points, !.colors = @ \o g.colors]

RECURSIVE ForEachFrom(_, _, _)
\* the geometry Body(x) of the elements x of seq from position i on, in order
ForEachFrom(Body(_), seq, i) ==
  IF i > Len(seq) THEN EmptyGeom
  ELSE LET h == Body(seq[i])
           t == ForEachFrom(Body, seq, i + 1)
       IN [points |-> h.points \o t.points, colors |-> h.colors \o t.colors]

ForEach(Body(_), seq) == ForEachFrom(Body, seq, 1)

----------------------------------------------------------------------------
(* IEEE doubles, as far as getRatio needs them: a finite value n/d (d >= 1) *)
(* or one of +inf, -inf, NaN.                                               *)

Fin(n, d) == [n |-> n, d |-> d, k |-> "fin"]
PosInf == [n |-> 1, d |-> 1, k |-> "inf"]
NegInf == [n |-> -1, d |-> 1, k |-> "inf"]
NaN == [n |-> 0, d |-> 1, k |-> "nan"]

Sign(x) == IF x > 0 THEN 1 ELSE IF x < 0 THEN -1 ELSE 0

Abs(x) == IF x < 0 THEN -x ELSE x

isfinite(x) == x.k = "fin"

\* a - b
DSub(a, b) ==
  IF a.k = "nan" \/ b.k = "nan" THEN NaN
  ELSE IF a.k = "inf" /\ b.k = "inf" THEN (IF a.n = b.n THEN NaN ELSE a)
  ELSE IF a.k = "inf" THEN a
  ELSE IF b.k = "inf" THEN (IF b.n > 0 THEN NegInf ELSE PosInf)
  ELSE Fin(a.n * b.d - b.n * a.d, a.d * b.d)

\* a / b (a zero divisor is +0.0 here: it only arises as x - x)
DDiv(a, b) ==
  IF a.k = "nan" \/ b.k = "nan" THEN NaN
  ELSE IF a.k = "inf" /\ b.k = "inf" THEN NaN
  ELSE IF a.k = "inf" THEN (IF Sign(b.n) >= 0 THEN a
                            ELSE IF a.n > 0 THEN NegInf ELSE PosInf)
  ELSE IF b.k = "inf" THEN Fin(0, 1)
  ELSE IF b.n = 0 THEN (IF a.n = 0 THEN NaN
                        ELSE IF a.n > 0 THEN PosInf ELSE NegInf)
  ELSE Fin(Sign(b.n) * a.n * b.d, Abs(b.n) * a.d)

\* a > b, a < b, a <= b: false whenever an operand is NaN
DLess(a, b) ==
  IF a.k = "nan" \/ b.k = "nan" THEN FALSE
  ELSE IF a.k = "inf" THEN (a.n < 0 /\ ~(b.k = "inf" /\ b.n < 0))
  ELSE IF b.k = "inf" THEN b.n > 0
  ELSE a.n * b.d < b.n * a.d

DLeq(a, b) ==
  IF a.k = "nan" \/ b.k = "nan" THEN FALSE
  ELSE DLess(a, b) \/ (a.k = b.k /\ a.n * b.d = b.n * a.d)

Doubles == {Fin(v, 1) : v \in (0 - MaxDist)..MaxDist} \cup {PosInf, NegInf, NaN}

\* getRatio without the upper clamp
getRatio_NoUpperClamp(min, max, value) ==
  LET r0 == DDiv(DSub(value, min), DSub(max, min))
      r1 == IF ~isfinite(r0) THEN Fin(0, 1) ELSE r0
  IN IF DLess(r1, Fin(0, 1)) THEN Fin(0, 1) ELSE r1

getRatio(min, max, value) ==
  LET r0 == DDiv(DSub(value, min), DSub(max, min))
      r1 == IF ~isfinite(r0) THEN Fin(0, 1) ELSE r0
      r2 == IF DLess(Fin(1, 1), r1) THEN Fin(1, 1) ELSE r1
  IN IF DLess(r2, Fin(0, 1)) THEN Fin(0, 1) ELSE r2

getDistanceColor(min, max, distance) ==
  IF DLeq(max, min) THEN DefaultColor
  ELSE interpolateColorMap(getRatio(min, max, distance))

----------------------------------------------------------------------------
(* Bounding boxes *)

\* getPointFromMatrix(corners, col) for the box of `node`
getPointFromMatrix(node, col) == Point("corner", node, col, 0)

\* the segments one corner c adds when the neighbours are c ^ bit
WireframeOfCorner_Xor(node, c, color) ==
  LET nb == <<BitXor(c, 1), BitXor(c, 2), BitXor(c, 4)>>
      Seg(j) == IF c # nb[j]
                THEN <<getPointFromMatrix(node, c), getPointFromMatrix(node, nb[j])>>
                ELSE <<>>
      pts == Seg(1) \o Seg(2) \o Seg(3)
  IN [points |-> pts, colors |-> Repeat(color, Len(pts))]

\* one iteration of the loop of addWireframeToMarker
WireframeOfCorner(node, c, color) ==
  LET nb == <<BitOr(c, 1), BitOr(c, 2), BitOr(c, 4)>>
      Seg(j) == IF c # nb[j]
                THEN <<getPointFromMatrix(node, c), getPointFromMatrix(node, nb[j])>>
                ELSE <<>>
      pts == Seg(1) \o Seg(2) \o Seg(3)
  IN [points |-> pts, colors |-> Repeat(color, Len(pts))]

\* corners.cols() of the 3 x 8 corner matrix
NumCorners == 8

addWireframeToMarker(node, color, m) ==
  LET Body(c) == WireframeOfCorner(node, c, color)
  IN Append2(m, ForEach(Body, [j \in 1..NumCorners |-> j - 1]))

\* addEdgesToCorners with one color per corner instead of one per point
addEdgesToCorners_ColorPerCorner(node, node_centroid, color, m) ==
  LET top == <<4, 5, 6, 7>>
      Body(c) == [points |-> <<node_centroid, getPointFromMatrix(node, c)>>,
                  colors |-> <<color>>]
  IN Append2(m, ForEach(Body, top))

\* the columns 0, 1, 2, 3 in place of the top corners
TopCorners_Bottom == <<0, 1, 2, 3>>

\* "top box corners are 4, 5, 6, 7": the columns addEdgesToCorners reads
TopCorners == <<4, 5, 6, 7>>

\* addEdgesToCorners(corners, node_centroid, color, marker): eight colors,
\* then the four segments to the top corners 4..7
addEdgesToCorners(node, node_centroid, color, m) ==
  LET Body(c) == [points |-> <<node_centroid, getPointFromMatrix(node, c)>>,
                  colors |-> <<>>]
  IN Append2([m EXCEPT !.colors = @ \o Repeat(color, 8)],
             ForEach(Body, TopCorners))

\* filter && !filter(node): filter.on is false for an empty FilterFunction
Rejected(filter, id) == filter.on /\ id \in filter.rejected

\* makeEdgesToBoundingBoxes; a node is [id |-> ...]
makeEdgesToBoundingBoxes(layer, filter) ==
  LET m0 == NewMarker("LINE_LIST", <<"ns">>, 0)
      Body(node) ==
        IF Rejected(filter, node.id) THEN EmptyGeom
        ELSE LET color == makeColorMsg(NodeColor(node.id), "bounding_box_alpha")
                 node_centroid == Point("position", node.id, 0, 1)
                 center_point == Point("break", node.id, 0, 1)
                 first == [points |-> <<node_centroid, center_point>>,
                           colors |-> <<color, color>>]
                 mk == addEdgesToCorners(node.id, center_point, color,
                                         Append2(EmptyGeom, first))
             IN [points |-> mk.points, colors |-> mk.colors]
  IN Append2(m0, ForEach(Body, layer))

\* makeLayerWireframeBoundingBoxes
makeLayerWireframeBoundingBoxes(config, layer, filter) ==
  LET m0 == [NewMarker("LINE_LIST", <<"ns">>, 0) EXCEPT
               !.pose_z = IF config.collapse_bounding_box THEN 0 ELSE 1]
      Body(node) ==
        IF Rejected(filter, node.id) THEN EmptyGeom
        ELSE LET color == makeColorMsg(NodeColor(node.id), "bounding_box_alpha")
                 mk == addWireframeToMarker(node.id, color, EmptyGeom)
             IN [points |-> mk.points, colors |-> mk.colors]
  IN Append2(m0, ForEach(Body, layer))

----------------------------------------------------------------------------
(* Place boundaries.  A place node is [id, boundary]: boundary is the      *)
(* number of points of attrs.boundary.                                     *)

\* int npts = 20
npts == 20

\* attrs.boundary.size() <= 1 with the guard off by one
Degenerate_OffByOne(node) == node.boundary < 1

\* attrs.boundary.size() <= 1
Degenerate(node) == node.boundary <= 1

\* the 0-based indices 0..n-1 as a sequence
Indices(n) == [j \in 1..n |-> j - 1]

\* the loop body with the start of every segment left at the first point
EllipseIteration_StaleStart(node, ix, color) ==
  [points |-> <<Point("ellipse", node.id, 0, 0),
                Point("ellipse", node.id, ix, 0)>>,
   colors |-> <<color, color>>]

\* iteration ix of the inner loop of makeLayerEllipseBoundaries: it pushes
\* last_point (the point of angle ix - 1), then the point of angle ix
EllipseIteration(node, ix, color) ==
  [points |-> <<Point("ellipse", node.id, ix - 1, 0),
                Point("ellipse", node.id, ix, 0)>>,
   colors |-> <<color, color>>]

\* makeLayerEllipseBoundaries
makeLayerEllipseBoundaries(config, layer) ==
  LET m0 == [NewMarker("LINE_LIST", <<"ns">>, 0) EXCEPT
               !.pose_z = IF config.collapse_boundary THEN 0 ELSE 1]
      Body(node) ==
        IF Degenerate(node) THEN EmptyGeom
        ELSE LET color == makeColorMsg(NodeColor(node.id), "boundary_ellipse_alpha")
                 Iter(ix) == EllipseIteration(node, ix, color)
             IN ForEach(Iter, [j \in 1..npts |-> j])
  IN Append2(m0, ForEach(Body, layer))

\* makeLayerPolygonEdges
makeLayerPolygonEdges(config, layer) ==
  LET m0 == NewMarker("LINE_LIST", <<"ns">>, 0)
      Body(node) ==
        IF Degenerate(node) THEN EmptyGeom
        ELSE LET node_point == Point("position", node.id, 0, 1)
                 color == makeColorMsg(NodeColor(node.id), "boundary_alpha")
                 Iter(i) == [points |-> <<Point("boundary", node.id, i, 0),
                                          node_point>>,
                             colors |-> <<color, color>>]
             IN ForEach(Iter, Indices(node.boundary))
  IN Append2(m0, ForEach(Body, layer))

\* last_point starting at boundary[0] instead of boundary.back()
PolygonLast_FromFront(node, i) == IF i = 0 THEN 0 ELSE i - 1

\* the boundary index last_point holds when iteration i starts: boundary.back()
\* before the first iteration, boundary[i - 1] after it
PolygonLast(node, i) == IF i = 0 THEN node.boundary - 1 ELSE i - 1

\* makeLayerPolygonBoundaries
makeLayerPolygonBoundaries(config, layer) ==
  LET m0 == [NewMarker("LINE_LIST", <<"ns">>, 0) EXCEPT
               !.pose_z = IF config.collapse_boundary THEN 0 ELSE 1]
      Body(node) ==
        IF Degenerate(node) THEN EmptyGeom
        ELSE LET color == IF config.boundary_use_node_color
                          THEN makeColorMsg(NodeColor(node.id), "boundary_alpha")
                          ELSE makeColorMsg(DefaultColor, "boundary_alpha")
                 Iter(i) == [points |-> <<Point("boundary", node.id,
                                                PolygonLast(node, i), 0),
                                          Point("boundary", node.id, i, 0)>>,
                             colors |-> <<color, color>>]
             IN ForEach(Iter, Indices(node.boundary))
  IN Append2(m0, ForEach(Body, layer))

----------------------------------------------------------------------------
(* Inter-layer edge aggregation.                                           *)
(* The graph has the nodes 1..5; node n is in layer NodeLayer[n].  An edge *)
(* is [source, target]; interlayer_edges() iterates in EdgeKey order, the  *)
(* order of InterlayerEdgeKeys.  The parent (higher layer) is the source.  *)

NodeLayer == <<1, 1, 2, 2, 3>>

Layers == {1, 2, 3}

GraphNodes == DOMAIN NodeLayer

InterlayerEdgeKeys ==
  << [source |-> 3, target |-> 1], [source |-> 4, target |-> 1],
     [source |-> 5, target |-> 1], [source |-> 3, target |-> 2],
     [source |-> 4, target |-> 2], [source |-> 5, target |-> 2],
     [source |-> 5, target |-> 3], [source |-> 5, target |-> 4] >>

\* the edges of a graph (a set of positions of the key order), in order
EdgesOf(keys, graph) ==
  LET RECURSIVE From(_)
      From(i) == IF i > Len(keys) THEN <<>>
                 ELSE (IF i \in graph THEN <<keys[i]>> ELSE <<>>) \o From(i + 1)
  IN From(1)

\* ns_prefix + std::to_string(source) + "_" + std::to_string(target)
EdgeNamespace(source, target) == <<"ns_prefix", source, target>>

\* makeNewEdgeList(header, config, ns_prefix, source, target)
makeNewEdgeList(source, target) ==
  NewMarker("LINE_LIST", EdgeNamespace(source, target), 0)

\* the gating of makeGraphEdgeMarkers without the check of the target layer
StaticGate_NoTargetCheck(edge, configs, filter) ==
  /\ ~Rejected(filter, edge.source)
  /\ ~Rejected(filter, edge.target)
  /\ NodeLayer[edge.source] \in DOMAIN configs
  /\ NodeLayer[edge.target] \in DOMAIN configs
  /\ configs[NodeLayer[edge.source]].visualize

\* the five `continue` conditions of makeGraphEdgeMarkers, negated
StaticGate(edge, configs, filter) ==
  /\ ~Rejected(filter, edge.source)
  /\ ~Rejected(filter, edge.target)
  /\ NodeLayer[edge.source] \in DOMAIN configs
  /\ NodeLayer[edge.target] \in DOMAIN configs
  /\ configs[NodeLayer[edge.source]].visualize
  /\ configs[NodeLayer[edge.target]].visualize

\* the counter a new batch starts with, were it zero
InitialCounter_Zero(num_between_insertions) == 0

\* num_since_last_insertion[source.layer] = num_between_insertions
InitialCounter(num_between_insertions) == num_between_insertions

\* edge_color with the two branches of use_edge_source exchanged
EdgeColor_Swapped(edge, config) ==
  IF config.interlayer_edge_use_color
  THEN (IF config.use_edge_source THEN NodeColor(edge.target)
        ELSE NodeColor(edge.source))
  ELSE DefaultColor

\* Color edge_color of makeGraphEdgeMarkers
EdgeColor(edge, config) ==
  IF config.interlayer_edge_use_color
  THEN (IF config.use_edge_source THEN NodeColor(edge.source)
        ELSE NodeColor(edge.target))
  ELSE DefaultColor

\* the state of the loops of the two aggregators
AggInit == [layer_markers |-> <<>>, num_since_last_insertion |-> <<>>,
            thrown |-> FALSE]

\* the std::map as a function: m[k] = v
MapPut(m, k, v) == [x \in DOMAIN m \cup {k} |-> IF x = k THEN v ELSE m[x]]

\* one iteration of the loop of makeGraphEdgeMarkers
GraphEdgeIteration(st, edge, configs, filter) ==
  IF ~StaticGate(edge, configs, filter) THEN st
  ELSE
    LET sl == NodeLayer[edge.source]
        tl == NodeLayer[edge.target]
        num_between_insertions == configs[sl].interlayer_edge_insertion_skip
        fresh == sl \notin DOMAIN st.layer_markers
        lm == IF fresh THEN MapPut(st.layer_markers, sl, makeNewEdgeList(sl, tl))
              ELSE st.layer_markers
        ns == IF fresh
              THEN MapPut(st.num_since_last_insertion, sl,
                          InitialCounter(num_between_insertions))
              ELSE st.num_since_last_insertion
    IN IF ns[sl] >= num_between_insertions
       THEN LET color == makeColorMsg(EdgeColor(edge, configs[sl]),
                                      "intralayer_edge_alpha")
                seg == [points |-> <<Point("position", edge.source, 0, sl),
                                     Point("position", edge.target, 0, tl)>>,
                        colors |-> <<color, color>>]
            IN [st EXCEPT !.layer_markers = MapPut(lm, sl, Append2(lm[sl], seg)),
                          !.num_since_last_insertion = MapPut(ns, sl, 0)]
       ELSE [st EXCEPT !.layer_markers = lm,
                       !.num_since_last_insertion = MapPut(ns, sl, ns[sl] + 1)]

\* for (const auto& id_marker_pair : layer_markers) push_back: key order
MarkersInKeyOrder(layer_markers) ==
  LET RECURSIVE From(_)
      From(l) == IF l > 3 THEN <<>>
                 ELSE (IF l \in DOMAIN layer_markers
                       THEN <<layer_markers[l]>> ELSE <<>>) \o From(l + 1)
  IN From(1)

\* makeGraphEdgeMarkers(header, graph, configs, visualizer_config, ns_prefix, filter)
makeGraphEdgeMarkers(edges, configs, filter) ==
  LET RECURSIVE Loop(_, _)
      Loop(st, i) == IF i > Len(edges) THEN st
                     ELSE Loop(GraphEdgeIteration(st, edges[i], configs, filter),
                               i + 1)
  IN [thrown |-> FALSE,
      markers |-> MarkersInKeyOrder(Loop(AggInit, 1).layer_markers)]

----------------------------------------------------------------------------
(* Dynamic inter-layer edges: the same five nodes, of which IsDynamicNode  *)
(* says which ones graph.isDynamic holds of.  Every edge of               *)
(* dynamic_interlayer_edges() has a dynamic endpoint.                      *)

IsDynamicNode == <<FALSE, TRUE, FALSE, TRUE, FALSE>>

DynamicEdgeKeys ==
  << [source |-> 4, target |-> 1], [source |-> 3, target |-> 2],
     [source |-> 4, target |-> 2], [source |-> 5, target |-> 2],
     [source |-> 5, target |-> 4] >>

\* shouldVisualize(graph, node, configs, dynamic_configs)
shouldVisualize(node, configs, dynamic_configs) ==
  IF IsDynamicNode[node]
  THEN /\ NodeLayer[node] \in DOMAIN dynamic_configs
       /\ dynamic_configs[NodeLayer[node]].visualize
       /\ dynamic_configs[NodeLayer[node]].visualize_interlayer_edges
  ELSE /\ NodeLayer[node] \in DOMAIN configs
       /\ configs[NodeLayer[node]].visualize

\* getConfigLayer(graph, source, target)
getConfigLayer(source, target) ==
  IF IsDynamicNode[source] THEN NodeLayer[source] ELSE NodeLayer[target]

\* one iteration of the loop of makeDynamicGraphEdgeMarkers; std::map::at
\* throws std::out_of_range on a missing key and the call ends there
DynamicEdgeIteration(st, edge, configs, dynamic_configs) ==
  IF st.thrown THEN st
  ELSE IF ~shouldVisualize(edge.source, configs, dynamic_configs) THEN st
  ELSE IF ~shouldVisualize(edge.target, configs, dynamic_configs) THEN st
  ELSE IF getConfigLayer(edge.source, edge.target) \notin DOMAIN dynamic_configs
       THEN [st EXCEPT !.thrown = TRUE]
  ELSE
    LET sl == NodeLayer[edge.source]
        tl == NodeLayer[edge.target]
        config == dynamic_configs[getConfigLayer(edge.source, edge.target)]
        num_between_insertions == config.interlayer_edge_insertion_skip
        fresh == sl \notin DOMAIN st.layer_markers
        lm == IF fresh
              THEN MapPut(st.layer_markers, sl,
                          [makeNewEdgeList(sl, tl) EXCEPT
                             !.color = makeColorMsg(DefaultColor, "edge_alpha")])
              ELSE st.layer_markers
        ns == IF fresh
              THEN MapPut(st.num_since_last_insertion, sl,
                          InitialCounter(num_between_insertions))
              ELSE st.num_since_last_insertion
    IN IF fresh /\ sl \notin DOMAIN configs THEN [st EXCEPT !.thrown = TRUE]
       ELSE IF ns[sl] >= num_between_insertions
       THEN IF sl \notin DOMAIN configs \/ tl \notin DOMAIN configs
            THEN [st EXCEPT !.thrown = TRUE]
            ELSE LET seg == [points |-> <<Point("position", edge.source, 0, sl),
                                          Point("position", edge.target, 0, tl)>>,
                             colors |-> <<>>]
                 IN [st EXCEPT
                       !.layer_markers = MapPut(lm, sl, Append2(lm[sl], seg)),
                       !.num_since_last_insertion = MapPut(ns, sl, 0)]
       ELSE [st EXCEPT !.layer_markers = lm,
                       !.num_since_last_insertion = MapPut(ns, sl, ns[sl] + 1)]

\* makeDynamicGraphEdgeMarkers(header, graph, configs, dynamic_configs, ...)
makeDynamicGraphEdgeMarkers(edges, configs, dynamic_configs) ==
  LET RECURSIVE Loop(_, _)
      Loop(st, i) ==
        IF i > Len(edges) THEN st
        ELSE Loop(DynamicEdgeIteration(st, edges[i], configs, dynamic_configs),
                  i + 1)
      final == Loop(AggInit, 1)
  IN IF final.thrown THEN [thrown |-> TRUE, markers |-> <<>>]
     ELSE [thrown |-> FALSE, markers |-> MarkersInKeyOrder(final.layer_markers)]

----------------------------------------------------------------------------
(* Mesh-connection fans.  A place node is [id, pcl_mesh_connections]; the  *)
(* mesh is [present, numVertices].                                         *)

\* the stride test with the counter taken after the test instead of before
SampledAt_CountFromOne(i, skip) == i % (skip + 1) = 0

\* (i - 1) % (config.interlayer_edge_insertion_skip + 1) == 0, i counted from 1
SampledAt(i, skip) == (i - 1) % (skip + 1) = 0

\* the range check with > for >=
OutOfRange_OffByOne(midx, mesh) == midx > mesh.numVertices

\* midx >= mesh->numVertices()
OutOfRange(midx, mesh) == midx >= mesh.numVertices

\* makeMeshEdgesMarker(header, config, visualizer_config, graph, layer, ns)
makeMeshEdgesMarker(config, collapse_layers, mesh, layer) ==
  LET m0 == NewMarker("LINE_LIST", <<"ns">>, 0)
      Body(node) ==
        IF Len(node.pcl_mesh_connections) = 0 THEN EmptyGeom
        ELSE
          LET center_point == Point("break", node.id, 0, 1)
              centroid_location == Point("position", node.id, 0, 1)
              color == IF config.interlayer_edge_use_color
                       THEN makeColorMsg(NodeColor(node.id), "interlayer_edge_alpha")
                       ELSE makeColorMsg(DefaultColor, "interlayer_edge_alpha")
              first == [points |-> <<centroid_location, center_point>>,
                        colors |-> <<color, color>>]
              Conn(i) ==
                LET midx == node.pcl_mesh_connections[i]
                IN IF ~SampledAt(i, config.interlayer_edge_insertion_skip)
                   THEN EmptyGeom
                   ELSE IF OutOfRange(midx, mesh) THEN EmptyGeom
                   ELSE [points |-> <<center_point,
                                      Point("mesh", midx, i,
                                            IF collapse_layers THEN 0 ELSE -1)>>,
                         colors |-> <<color, color>>]
              rest == ForEach(Conn, [j \in 1..Len(node.pcl_mesh_connections) |-> j])
          IN [points |-> first.points \o rest.points,
              colors |-> first.colors \o rest.colors]
  IN IF ~mesh.present THEN m0 ELSE Append2(m0, ForEach(Body, layer))

----------------------------------------------------------------------------
(* Intra-layer edges.  A layer has the nodes 1..4 and a set of edges out   *)
(* of LayerEdgeKeys, iterated in key order.                                *)

LayerEdgeKeys ==
  << [source |-> 1, target |-> 2], [source |-> 1, target |-> 3],
     [source |-> 1, target |-> 4], [source |-> 2, target |-> 3],
     [source |-> 2, target |-> 4], [source |-> 3, target |-> 4] >>

LayerNodes == {1, 2, 3, 4}

\* makeGvdWireframe(header, config, layer, ns, color_func, marker_id);
\* nodes is the sequence of node ids of the layer
makeGvdWireframe(nodes, edges, marker_id) ==
  LET nodes0 == NewMarker("SPHERE_LIST", <<"ns", "_nodes">>, marker_id)
      edges0 == NewMarker("LINE_LIST", <<"ns", "_edges">>, marker_id)
      NodeBody(n) == [points |-> <<Point("position", n, 0, 0)>>,
                      colors |-> <<makeColorMsg(NodeColor(n), "marker_alpha")>>]
      EdgeBody(e) ==
        [points |-> <<Point("position", e.source, 0, 0),
                      Point("position", e.target, 0, 0)>>,
         colors |-> <<makeColorMsg(NodeColor(e.source), "marker_alpha"),
                      makeColorMsg(NodeColor(e.target), "marker_alpha")>>]
      nodes1 == Append2(nodes0, ForEach(NodeBody, nodes))
      edges1 == Append2(edges0, ForEach(EdgeBody, edges))
  IN IF Len(nodes) = 0 THEN [thrown |-> FALSE, markers |-> <<>>]
     ELSE IF Len(edges) = 0 THEN [thrown |-> FALSE, markers |-> <<nodes1>>]
     ELSE [thrown |-> FALSE, markers |-> <<nodes1, edges1>>]

\* makeDynamicEdgeMarkers(header, config, layer, visualizer_config, color, ns, id)
makeDynamicEdgeMarkers(edges, marker_id) ==
  LET m0 == [NewMarker("LINE_LIST", <<"ns">>, marker_id) EXCEPT
               !.color = makeColorMsg(NodeColor(0), "edge_alpha")]
      Body(e) == [points |-> <<Point("position", e.source, 0, 1),
                               Point("position", e.target, 0, 1)>>,
                  colors |-> <<>>]
  IN Append2(m0, ForEach(Body, edges))

\* the points and colors one accepted edge adds in makeLayerEdgeMarkers
LayerEdgeSegment(e) ==
  [points |-> <<Point("position", e.source, 0, 1),
                Point("position", e.target, 0, 1)>>,
   colors |-> <<makeColorMsg([n |-> e.source, kind |-> "edge_source", d |-> e.target],
                             "intralayer_edge_alpha"),
                makeColorMsg([n |-> e.source, kind |-> "edge_target", d |-> e.target],
                             "intralayer_edge_alpha")>>]

\* filter && (!filter(source_node) || !filter(target_node))
EdgeRejected(filter, e) ==
  filter.on /\ (e.source \in filter.rejected \/ e.target \in filter.rejected)

----------------------------------------------------------------------------
(* Single-node markers and labels.  A semantic node is [id, name,          *)
(* semantic_label]; name is a sequence of strings, <<"O(", x, ")">> being  *)
(* the name "O(x)" with the digits x.                                      *)

\* makeBoundingBoxMarker(header, config, node, visualizer_config, ns, func)
makeBoundingBoxMarker(config, node) ==
  [NewMarker("CUBE", <<"ns">>, node.id) EXCEPT
     !.color = makeColorMsg(NodeColor(node.id), "bounding_box_alpha"),
     !.pose = Point("bbox_center", node.id, 0, 0),
     !.pose_z = IF config.collapse_bounding_box THEN 0 ELSE 1]

\* name.empty() ? NodeSymbol(node.id).getLabel() : name
LabelText(node) == IF node.name = <<>> THEN <<"symbol", "of", "node">> ELSE node.name

\* makeTextMarker(header, config, node, visualizer_config, ns); draw is the
\* value dist(gen) returns when config.add_label_jitter is set
makeTextMarker(config, node, draw) ==
  [NewMarker("TEXT_VIEW_FACING", <<"ns">>, node.id) EXCEPT
     !.text = LabelText(node),
     !.color = makeColorMsg(DefaultColor, "one"),
     !.pose = Point("position", node.id, 0, 1),
     !.pose_z = 1,
     !.jitter = IF config.add_label_jitter THEN draw ELSE 0]

\* std::regex_search(unique_id, match, R"(O\((\d+)\))")
RegexMatches(name) == Len(name) = 3 /\ name[1] = "O(" /\ name[3] = ")"

\* unique_id after the regex: the digits of the match, else the whole name
UniqueId(node) == IF RegexMatches(node.name) THEN <<node.name[2]>> ELSE node.name

\* the loop over label_names: the name of the first entry whose label is
\* semantic_label, "Unknown" without one
LabelName(label_names, semantic_label) ==
  LET RECURSIVE From(_)
      From(i) == IF i > Len(label_names) THEN "Unknown"
                 ELSE IF label_names[i].label = semantic_label
                      THEN label_names[i].name
                      ELSE From(i + 1)
  IN From(1)

\* nh.setParam(key, value) on the parameter server
setParam(store, key, value) ==
  [store EXCEPT !.semantic_labels = MapPut(@, key, value)]

\* makeTextMarkerNoHeight(header, config, node, visualizer_config, ns, nh):
\* the marker it returns and the parameter server as it leaves it
makeTextMarkerNoHeight(config, node, store) ==
  LET label_text == LabelName(store.label_names, node.semantic_label)
      unique_id == UniqueId(node)
  IN [marker |-> [NewMarker("TEXT_VIEW_FACING", <<"ns">>, node.id) EXCEPT
                    !.text = <<label_text, "(">> \o unique_id \o <<")">>,
                    !.color = makeColorMsg(DefaultColor, "one"),
                    !.pose = Point("position", node.id, 0, 0)],
      params |-> setParam(store, unique_id, label_text)]

----------------------------------------------------------------------------
(* The label of a dynamic layer.  A size_t is four 16-bit limbs, the most  *)
(* significant first, so that 64-bit unsigned arithmetic is exact.  The    *)
(* layer is the sequence of its nodes, oldest first.                       *)

LimbBase == 2 ^ 16

\* the size_t that holds the natural number n < 2^32
ToSizeT(n) == <<0, 0, n \div LimbBase, n % LimbBase>>

\* x - 1 in size_t: modulo 2^64, 0 - 1 is the largest size_t
SizeMinusOne(x) ==
  LET RECURSIVE Borrow(_, _)
      Borrow(y, k) ==
        IF k = 0 THEN y
        ELSE IF y[k] > 0 THEN [y EXCEPT ![k] = @ - 1]
        ELSE Borrow([y EXCEPT ![k] = LimbBase - 1], k - 1)
  IN Borrow(x, 4)

\* x < y in size_t
SizeLess(x, y) ==
  \E k \in 1..4 : x[k] < y[k] /\ \A j \in 1..(k - 1) : x[j] = y[j]

\* layer.numNodes()
numNodes(layer) == ToSizeT(Len(layer))

\* layer.getPositionByIndex(index) for an index the layer has
getPositionByIndex(layer, index) ==
  Point("position", layer[index[3] * LimbBase + index[4] + 1].id, 0, 0)

\* what getPositionByIndex can do with an index the layer does not have: its
\* code is not part of this file
BadIndexOutcomes == {"throws", "reads"}

\* makeDynamicLabelMarker(header, config, layer, visualizer_config, ns,
\* marker_id); `outcome` is used only for an index the layer does not have.
\* The result carries the index that was looked up.
makeDynamicLabelMarker(layer, marker_id, outcome) ==
  LET index == SizeMinusOne(numNodes(layer))
      m0 == [NewMarker("TEXT_VIEW_FACING", <<"ns">>, marker_id) EXCEPT
               !.text = <<"Agent">>,
               !.color = makeColorMsg(DefaultColor, "one"),
               !.pose_z = 1]
  IN IF SizeLess(index, numNodes(layer))
     THEN [thrown |-> FALSE,
           markers |-> <<[m0 EXCEPT !.pose = [getPositionByIndex(layer, index)
                                                EXCEPT !.z = 1]]>>,
           index |-> index]
     ELSE IF outcome = "throws"
     THEN [thrown |-> TRUE, markers |-> <<>>, index |-> index]
     ELSE [thrown |-> FALSE,
           markers |-> <<[m0 EXCEPT !.pose = Point("unknown", 0, 0, 1)]>>,
           index |-> index]

----------------------------------------------------------------------------
(* Places.  A place node is [id, real_place].                              *)

\* marker.id = id++ without the increment
NextEllipsoidId_Stuck(id) == id

\* marker.id = id++
NextEllipsoidId(id) == id + 1

\* makeEllipsoidMarkers(header, config, layer, visualizer_config, ns, color_func)
makeEllipsoidMarkers(layer) ==
  LET RECURSIVE Loop(_, _, _)
      Loop(markers, id, j) ==
        IF j > Len(layer) THEN markers
        ELSE IF layer[j].real_place THEN Loop(markers, id, j + 1)
        ELSE LET color == makeColorMsg(NodeColor(layer[j].id), "marker_alpha")
                 m == [NewMarker("SPHERE", <<"ns">>, id) EXCEPT
                         !.pose = Point("position", layer[j].id, 0, 1),
                         !.pose_z = 1,
                         !.color = color,
                         !.colors = <<color>>]
             IN Loop(Append(markers, m), NextEllipsoidId(id), j + 1)
  IN [thrown |-> FALSE, markers |-> Loop(<<>>, 0, 1)]

\* the skip test of makePlaceCentroidMarkers, never skipping
CentroidSkips_Never(node) == FALSE

\* if (!attrs.real_place) continue
CentroidSkips(node) == ~node.real_place

\* makePlaceCentroidMarkers(header, config, layer, visualizer_config, ns, color_func)
makePlaceCentroidMarkers(config, layer) ==
  LET m0 == NewMarker(IF config.use_sphere_marker THEN "SPHERE_LIST"
                      ELSE "CUBE_LIST", <<"ns">>, 0)
      Body(node) ==
        IF CentroidSkips(node) THEN EmptyGeom
        ELSE [points |-> <<Point("position", node.id, 0, 1)>>,
              colors |-> <<makeColorMsg(NodeColor(node.id), "marker_alpha")>>]
  IN Append2(m0, ForEach(Body, layer))

----------------------------------------------------------------------------
(* The arguments the calls are made with *)

\* a FilterFunction: empty, or one that rejects the nodes of `rejected`
Filters(nodes) ==
  {[on |-> FALSE, rejected |-> {}]} \cup
  {[on |-> TRUE, rejected |-> {n}] : n \in nodes}

\* sets of at most MaxEdges positions of a key sequence
Graphs(keys) == {g \in SUBSET (1..Len(keys)) : Cardinality(g) <= MaxEdges}

\* a layer of place nodes with the boundary sizes b[1], b[2], ...
PlaceLayer(b) == [j \in 1..Len(b) |-> [id |-> j, boundary |-> b[j]]]

PlaceLayers == {PlaceLayer(b) : b \in SeqsUpTo(0..MaxBoundary, MaxNodes)}

\* a layer of object nodes 1..n
ObjectLayer(n) == [j \in 1..n |-> [id |-> j]]

\* a dynamic layer with the nodes 1..n, node n the most recent
DynamicLayer(n) == [j \in 1..n |-> [id |-> j]]

\* a layer of places with the mesh connections c[1], c[2], ...
MeshLayer(c) == [j \in 1..Len(c) |-> [id |-> j, pcl_mesh_connections |-> c[j]]]

RECURSIVE ConnectionLists(_, _)
\* the mesh connections of n places that have at most `budget` connections
\* between them
ConnectionLists(n, budget) ==
  IF n = 0 THEN {<<>>}
  ELSE UNION {{<<c>> \o rest : rest \in ConnectionLists(n - 1, budget - Len(c))} :
                c \in SeqsUpTo(0..MaxMeshIndex, budget)}

\* layers of at most MaxMeshNodes places with at most MaxConn mesh
\* connections between them
MeshLayers ==
  {MeshLayer(c) : c \in UNION {ConnectionLists(n, MaxConn) : n \in 0..MaxMeshNodes}}

Meshes ==
  {[numVertices |-> 0, present |-> FALSE]} \cup
  {[numVertices |-> v, present |-> TRUE] : v \in 0..(MaxMeshIndex + 1)}

\* the LayerConfig fields the builders read
LayerConfigs(use_color, use_source) ==
  {[visualize |-> FALSE,
    interlayer_edge_use_color |-> use_color,
    use_edge_source |-> use_source,
    interlayer_edge_insertion_skip |-> 0]} \cup
  {[visualize |-> TRUE,
    interlayer_edge_use_color |-> use_color,
    use_edge_source |-> use_source,
    interlayer_edge_insertion_skip |-> k]
     : k \in 0..MaxSkip}

\* config c with the two color flags f
WithFlags(c, f) ==
  [c EXCEPT !.interlayer_edge_use_color = f[1], !.use_edge_source = f[2]]

\* std::map<LayerId, LayerConfig>; flags[l] are the color flags of layer l
ConfigMaps(flags) ==
  UNION {{[l \in D |-> WithFlags(b[l], flags[l])] :
            b \in [D -> LayerConfigs(FALSE, FALSE)]} : D \in SUBSET Layers}

\* the maps makeDynamicGraphEdgeMarkers is called with: it reads visualize only
VisibilityMaps ==
  UNION {[D -> {c \in LayerConfigs(FALSE, FALSE) :
                  c.interlayer_edge_insertion_skip = 0}] : D \in SUBSET Layers}

DynamicLayerConfigs ==
  {[visualize |-> FALSE,
    interlayer_edge_insertion_skip |-> 0,
    visualize_interlayer_edges |-> FALSE],
   [visualize |-> TRUE,
    interlayer_edge_insertion_skip |-> 0,
    visualize_interlayer_edges |-> FALSE]} \cup
  {[visualize |-> TRUE,
    interlayer_edge_insertion_skip |-> k,
    visualize_interlayer_edges |-> TRUE] : k \in 0..MaxSkip}

\* std::map<LayerId, DynamicLayerConfig>, for the layers that have dynamic nodes
DynamicConfigMaps ==
  UNION {[D -> DynamicLayerConfigs] :
           D \in SUBSET {NodeLayer[n] : n \in {m \in GraphNodes : IsDynamicNode[m]}}}

\* <<interlayer_edge_use_color, use_edge_source>> of the layers 1, 2, 3: the
\* same in every layer, or different from layer to layer
ColorFlags ==
  {<<f, f, f>> : f \in {<<FALSE, FALSE>>, <<TRUE, TRUE>>, <<TRUE, FALSE>>}} \cup
  {<< <<TRUE, TRUE>>, <<TRUE, FALSE>>, <<FALSE, FALSE>> >>,
   << <<FALSE, FALSE>>, <<TRUE, TRUE>>, <<TRUE, FALSE>> >>}

\* a layer of places with the real_place flags r[1], r[2], ...
RealPlaceLayer(r) == [j \in 1..Len(r) |-> [id |-> j, real_place |-> r[j]]]

RealPlaceLayers == {RealPlaceLayer(r) : r \in SeqsUpTo(BOOLEAN, MaxNodes)}

\* attrs.name of a semantic node
Names == {<<>>, <<"chair">>, <<"O(", "1", ")">>, <<"O(", "2", ")">>}

SemanticNodes ==
  {[id |-> n, name |-> nm, semantic_label |-> l] :
     n \in 1..MaxNodes, nm \in Names, l \in 1..3}

\* the parameter server when the process starts: /label_names is loaded,
\* nothing is below /semantic_labels
InitialParams ==
  [label_names |-> << [name |-> "chair", label |-> 1],
                      [name |-> "table", label |-> 2] >>,
   semantic_labels |-> <<>>]

\* the values dist(gen) is taken to return
Draws == {-1, 1}

NoCall == [fn |-> "none"]

NoResult == [thrown |-> FALSE, markers |-> <<>>]

NoMarker == NewMarker("NONE", <<>>, 0)

----------------------------------------------------------------------------
(* The machine *)

Init ==
  /\ pc = "idle"
  /\ call = NoCall
  /\ out = NoResult
  /\ edge_iter = 0
  /\ marker = NoMarker
  /\ calls = 0
  /\ first_out = NoResult
  /\ params = InitialParams
  /\ gen = 0

\* a call that runs to completion in one step and writes nothing but its
\* result
Returns(c, result) ==
  /\ pc' = "done"
  /\ call' = c
  /\ out' = result
  /\ calls' = calls + 1
  /\ UNCHANGED <<edge_iter, marker, first_out, params, gen>>

CallGetDistanceColor ==
  /\ pc = "idle"
  /\ \E min \in Doubles, max \in Doubles, distance \in Doubles :
       Returns([min |-> min,
                max |-> max,
                distance |-> distance,
                fn |-> "getDistanceColor"],
               getDistanceColor(min, max, distance))

CallMakeLayerEllipseBoundaries ==
  /\ pc = "idle"
  /\ \E layer \in PlaceLayers, collapse \in BOOLEAN :
       LET config == [collapse_boundary |-> collapse, boundary_use_node_color |-> FALSE]
       IN Returns([layer |-> layer,
                   config |-> config,
                   fn |-> "makeLayerEllipseBoundaries"],
                  makeLayerEllipseBoundaries(config, layer))

CallMakeLayerPolygonEdges ==
  /\ pc = "idle"
  /\ \E layer \in PlaceLayers, collapse \in BOOLEAN :
       LET config == [collapse_boundary |-> collapse, boundary_use_node_color |-> FALSE]
       IN Returns([layer |-> layer,
                   config |-> config,
                   fn |-> "makeLayerPolygonEdges"],
                  makeLayerPolygonEdges(config, layer))

CallMakeLayerPolygonBoundaries ==
  /\ pc = "idle"
  /\ \E layer \in PlaceLayers, collapse \in BOOLEAN, use_node_color \in BOOLEAN :
       LET config == [collapse_boundary |-> collapse,
                      boundary_use_node_color |-> use_node_color]
       IN Returns([layer |-> layer,
                   config |-> config,
                   fn |-> "makeLayerPolygonBoundaries"],
                  makeLayerPolygonBoundaries(config, layer))

CallMakeEdgesToBoundingBoxes ==
  /\ pc = "idle"
  /\ \E n \in 0..MaxNodes, collapse \in BOOLEAN :
       \E filter \in Filters(1..n) :
         Returns([filter |-> filter,
                  layer |-> ObjectLayer(n),
                  config |-> [collapse_bounding_box |-> collapse],
                  fn |-> "makeEdgesToBoundingBoxes"],
                 makeEdgesToBoundingBoxes(ObjectLayer(n), filter))

CallMakeBoundingBoxMarker ==
  /\ pc = "idle"
  /\ \E n \in 1..MaxNodes, collapse \in BOOLEAN :
       LET config == [collapse_bounding_box |-> collapse]
       IN Returns([node |-> [id |-> n],
                   config |-> config,
                   fn |-> "makeBoundingBoxMarker"],
                  makeBoundingBoxMarker(config, [id |-> n]))

\* makeTextMarker: with add_label_jitter it draws once from the static
\* generator, which stays advanced after the call
CallMakeTextMarker ==
  /\ pc = "idle"
  /\ \E node \in SemanticNodes, jitter \in BOOLEAN, draw \in Draws :
       LET config == [add_label_jitter |-> jitter]
       IN /\ (~jitter => draw = 1)
          /\ call' = [node |-> node, config |-> config, fn |-> "makeTextMarker"]
          /\ out' = makeTextMarker(config, node, draw)
          /\ gen' = IF jitter THEN gen + 1 ELSE gen
  /\ pc' = "done"
  /\ calls' = calls + 1
  /\ UNCHANGED <<edge_iter, marker, first_out, params>>

\* makeTextMarkerNoHeight: the call ends with nh.setParam
CallMakeTextMarkerNoHeight ==
  /\ pc = "idle"
  /\ \E node \in SemanticNodes :
       LET r == makeTextMarkerNoHeight([label_scale |-> 1], node, params)
       IN /\ call' = [node |-> node, fn |-> "makeTextMarkerNoHeight"]
          /\ out' = r.marker
          /\ params' = r.params
  /\ pc' = "done"
  /\ calls' = calls + 1
  /\ UNCHANGED <<edge_iter, marker, first_out, gen>>

CallMakePlaceCentroidMarkers ==
  /\ pc = "idle"
  /\ \E layer \in RealPlaceLayers, use_sphere \in BOOLEAN :
       LET config == [use_sphere_marker |-> use_sphere]
       IN Returns([layer |-> layer,
                   config |-> config,
                   fn |-> "makePlaceCentroidMarkers"],
                  makePlaceCentroidMarkers(config, layer))

CallMakeEllipsoidMarkers ==
  /\ pc = "idle"
  /\ \E layer \in RealPlaceLayers :
       Returns([layer |-> layer, fn |-> "makeEllipsoidMarkers"],
               makeEllipsoidMarkers(layer))

\* the caller draws the frontier places of the layer it has just drawn the
\* real places of
CallMakeEllipsoidMarkersAfterCentroids ==
  /\ pc = "done"
  /\ calls = 1
  /\ call.fn = "makePlaceCentroidMarkers"
  /\ call' = [layer |-> call.layer, fn |-> "makeEllipsoidMarkers"]
  /\ out' = makeEllipsoidMarkers(call.layer)
  /\ first_out' = out
  /\ calls' = 2
  /\ UNCHANGED <<pc, edge_iter, marker, params, gen>>

CallMakeLayerWireframeBoundingBoxes ==
  /\ pc = "idle"
  /\ \E n \in 0..MaxNodes, collapse \in BOOLEAN :
       \E filter \in Filters(1..n) :
         LET config == [collapse_bounding_box |-> collapse]
         IN Returns([filter |-> filter,
                     layer |-> ObjectLayer(n),
                     config |-> config,
                     fn |-> "makeLayerWireframeBoundingBoxes"],
                    makeLayerWireframeBoundingBoxes(config, ObjectLayer(n), filter))

CallMakeGraphEdgeMarkers ==
  /\ pc = "idle"
  /\ \E graph \in Graphs(InterlayerEdgeKeys), flags \in ColorFlags,
        filter \in Filters(GraphNodes) :
       \E configs \in ConfigMaps(flags) :
         LET edges == EdgesOf(InterlayerEdgeKeys, graph)
         IN Returns([filter |-> filter,
                     configs |-> configs,
                     edges |-> edges,
                     fn |-> "makeGraphEdgeMarkers"],
                    makeGraphEdgeMarkers(edges, configs, filter))

\* a second call of an aggregator with the graph and the configs of the first
CallAggregatorAgain ==
  /\ pc = "done"
  /\ calls = 1
  /\ \/ /\ call.fn = "makeGraphEdgeMarkers"
        /\ out' = makeGraphEdgeMarkers(call.edges, call.configs, call.filter)
     \/ /\ call.fn = "makeDynamicGraphEdgeMarkers"
        /\ out' = makeDynamicGraphEdgeMarkers(call.edges, call.configs,
                                              call.dynamic_configs)
  /\ first_out' = out
  /\ calls' = 2
  /\ UNCHANGED <<pc, call, edge_iter, marker, params, gen>>

CallMakeDynamicGraphEdgeMarkers ==
  /\ pc = "idle"
  /\ \E graph \in Graphs(DynamicEdgeKeys), configs \in VisibilityMaps,
        dynamic_configs \in DynamicConfigMaps :
       LET edges == EdgesOf(DynamicEdgeKeys, graph)
       IN Returns([configs |-> configs,
                   edges |-> edges,
                   dynamic_configs |-> dynamic_configs,
                   fn |-> "makeDynamicGraphEdgeMarkers"],
                  makeDynamicGraphEdgeMarkers(edges, configs, dynamic_configs))

CallMakeMeshEdgesMarker ==
  /\ pc = "idle"
  /\ \E layer \in MeshLayers, mesh \in Meshes, skip \in 0..MaxSkip,
        use_color \in BOOLEAN, collapse_layers \in BOOLEAN :
       LET config == [interlayer_edge_use_color |-> use_color,
                      interlayer_edge_insertion_skip |-> skip]
       IN Returns([layer |-> layer,
                   config |-> config,
                   mesh |-> mesh,
                   collapse_layers |-> collapse_layers,
                   fn |-> "makeMeshEdgesMarker"],
                  makeMeshEdgesMarker(config, collapse_layers, mesh, layer))

CallMakeGvdWireframe ==
  /\ pc = "idle"
  /\ \E num_nodes \in {0, 4}, graph \in Graphs(LayerEdgeKeys), marker_id \in 0..1 :
       /\ (num_nodes = 0 => graph = {})
       /\ LET nodes == [j \in 1..num_nodes |-> j]
              edges == EdgesOf(LayerEdgeKeys, graph)
          IN Returns([marker_id |-> marker_id,
                      edges |-> edges,
                      nodes |-> nodes,
                      fn |-> "makeGvdWireframe"],
                     makeGvdWireframe(nodes, edges, marker_id))

CallMakeDynamicEdgeMarkers ==
  /\ pc = "idle"
  /\ \E graph \in Graphs(LayerEdgeKeys), marker_id \in 0..1 :
       LET edges == EdgesOf(LayerEdgeKeys, graph)
       IN Returns([marker_id |-> marker_id,
                   edges |-> edges,
                   fn |-> "makeDynamicEdgeMarkers"],
                  makeDynamicEdgeMarkers(edges, marker_id))

CallMakeDynamicLabelMarker ==
  /\ pc = "idle"
  /\ \E n \in 0..MaxNodes, marker_id \in 0..1, outcome \in BadIndexOutcomes :
       Returns([marker_id |-> marker_id,
                layer |-> DynamicLayer(n),
                fn |-> "makeDynamicLabelMarker"],
               makeDynamicLabelMarker(DynamicLayer(n), marker_id, outcome))

----------------------------------------------------------------------------
(* makeLayerEdgeMarkers, one loop iteration per step.  edge_iter is the    *)
(* 0-based position of the iterator in layer.edges(); Len(call.edges) is   *)
(* layer.edges().end().                                                    *)

CallMakeLayerEdgeMarkers ==
  /\ pc = "idle"
  /\ \E graph \in Graphs(LayerEdgeKeys), filter \in Filters(LayerNodes),
        skip \in 0..MaxSkip :
       call' = [filter |-> filter,
                config |-> [intralayer_edge_insertion_skip |-> skip],
                edges |-> EdgesOf(LayerEdgeKeys, graph),
                fn |-> "makeLayerEdgeMarkers"]
  /\ pc' = "lem_loop"
  /\ edge_iter' = 0
  /\ marker' = NewMarker("LINE_LIST", <<"ns">>, 0)
  /\ out' = NoResult
  /\ calls' = calls + 1
  /\ UNCHANGED <<first_out, params, gen>>

\* a second call of makeLayerEdgeMarkers with the layer, config and filter of
\* the first
CallMakeLayerEdgeMarkersAgain ==
  /\ pc = "done"
  /\ calls = 1
  /\ call.fn = "makeLayerEdgeMarkers"
  /\ pc' = "lem_loop"
  /\ edge_iter' = 0
  /\ marker' = NewMarker("LINE_LIST", <<"ns">>, 0)
  /\ first_out' = out
  /\ out' = NoResult
  /\ calls' = 2
  /\ UNCHANGED <<call, params, gen>>

\* the body of the while loop when the filter rejects the edge: `continue`
\* with the iterator where it was
LayerEdgeRejected ==
  /\ pc = "lem_loop"
  /\ edge_iter < Len(call.edges)
  /\ EdgeRejected(call.filter, call.edges[edge_iter + 1])
  /\ UNCHANGED vars

\* where std::advance(edge_iter, n) leaves the iterator.  Moving a std::map
\* iterator past end() is undefined: it may stop at end(), land on an
\* element again, or the call may fault (position -1).  Once the marker
\* holds MaxSegs segments the iterator no longer lands on an element.
AdvanceOutcomes(pos, n, end, segments) ==
  IF pos + n <= end THEN {pos + n}
  ELSE IF segments < MaxSegs THEN (0..end) \cup {-1}
  ELSE {end, -1}

\* the body of the while loop for an accepted edge
LayerEdgeAccepted ==
  /\ pc = "lem_loop"
  /\ edge_iter < Len(call.edges)
  /\ ~EdgeRejected(call.filter, call.edges[edge_iter + 1])
  /\ marker' = Append2(marker, LayerEdgeSegment(call.edges[edge_iter + 1]))
  /\ \E next \in AdvanceOutcomes(edge_iter,
                                 call.config.intralayer_edge_insertion_skip + 1,
                                 Len(call.edges),
                                 NumSegments(marker.points) + 1) :
       IF next = -1
       THEN pc' = "fault" /\ edge_iter' = edge_iter
       ELSE pc' = pc /\ edge_iter' = next
  /\ UNCHANGED <<call, out, calls, first_out, params, gen>>

\* edge_iter == layer.edges().end(): return marker
LayerEdgeMarkersReturn ==
  /\ pc = "lem_loop"
  /\ edge_iter = Len(call.edges)
  /\ out' = marker
  /\ pc' = "done"
  /\ edge_iter' = 0
  /\ marker' = NoMarker
  /\ UNCHANGED <<call, calls, first_out, params, gen>>

LayerEdgeNext ==
  \/ CallMakeLayerEdgeMarkers
  \/ CallMakeLayerEdgeMarkersAgain
  \/ LayerEdgeRejected
  \/ LayerEdgeAccepted
  \/ LayerEdgeMarkersReturn

Next ==
  \/ CallGetDistanceColor
  \/ CallMakeLayerEllipseBoundaries
  \/ CallMakeLayerPolygonEdges
  \/ CallMakeLayerPolygonBoundaries
  \/ CallMakeEdgesToBoundingBoxes
  \/ CallMakeLayerWireframeBoundingBoxes
  \/ CallMakeBoundingBoxMarker
  \/ CallMakeTextMarker
  \/ CallMakeTextMarkerNoHeight
  \/ CallMakePlaceCentroidMarkers
  \/ CallMakeEllipsoidMarkers
  \/ CallMakeEllipsoidMarkersAfterCentroids
  \/ CallMakeGraphEdgeMarkers
  \/ CallAggregatorAgain
  \/ CallMakeDynamicGraphEdgeMarkers
  \/ CallMakeMeshEdgesMarker
  \/ CallMakeGvdWireframe
  \/ CallMakeDynamicEdgeMarkers
  \/ CallMakeDynamicLabelMarker
  \/ LayerEdgeNext

Spec == Init /\ [][Next]_vars

\* makeLayerEdgeMarkers alone; the calling thread keeps running, so a call
\* that can take a step takes it
LayerEdgeFairSpec ==
  Init /\ [][LayerEdgeNext]_vars /\ WF_vars(LayerEdgeNext)

----------------------------------------------------------------------------
(* Properties *)

\* the call of builder fn has returned
Returned(fn) == pc = "done" /\ call.fn = fn

\* the positions of the segments of a line list that belong to node id
SegmentsOfNode(points, id) ==
  {i \in 1..NumSegments(points) : points[2 * i - 1].n = id}

\* the layer without the places whose boundary has 0 or 1 points
WithoutDegenerate(layer) == SelectSeq(layer, LAMBDA node : node.boundary > 1)

\* the edge a segment was drawn for
EdgeOfSegment(points, i) ==
  [source |-> points[2 * i - 1].n, target |-> points[2 * i].n]

\* the namespace an edge belongs to
NamespaceOfEdge(e) == EdgeNamespace(NodeLayer[e.source], NodeLayer[e.target])

\* layer l has a config with visualize set
LayerVisible(configs, l) == l \in DOMAIN configs /\ configs[l].visualize

\* the gating conditions of an edge of the call being looked at
Qualifies(e) ==
  IF call.fn = "makeGraphEdgeMarkers"
  THEN /\ ~(call.filter.on /\ e.source \in call.filter.rejected)
       /\ ~(call.filter.on /\ e.target \in call.filter.rejected)
       /\ LayerVisible(call.configs, NodeLayer[e.source])
       /\ LayerVisible(call.configs, NodeLayer[e.target])
  ELSE \A n \in {e.source, e.target} :
         IF IsDynamicNode[n]
         THEN /\ NodeLayer[n] \in DOMAIN call.dynamic_configs
              /\ call.dynamic_configs[NodeLayer[n]].visualize
              /\ call.dynamic_configs[NodeLayer[n]].visualize_interlayer_edges
         ELSE LayerVisible(call.configs, NodeLayer[n])

\* one of the two aggregators has returned a collection
AggregatorReturned ==
  /\ \/ Returned("makeGraphEdgeMarkers")
     \/ Returned("makeDynamicGraphEdgeMarkers")
  /\ ~out.thrown

\* C1: in makeGraphEdgeMarkers every namespace (source layer, target layer)
\* with E >= 1 qualifying edges and insertion skip k has a batch of exactly
\* ceil(E / (k + 1)) segments, the first qualifying edge of the namespace
\* among them
C1_SampledPerNamespace ==
  Returned("makeGraphEdgeMarkers") =>
    \A s \in Layers, t \in Layers :
      LET q == {i \in 1..Len(call.edges) :
                  /\ Qualifies(call.edges[i])
                  /\ NamespaceOfEdge(call.edges[i]) = EdgeNamespace(s, t)}
          first == CHOOSE i \in q : \A j \in q : i <= j
      IN q # {} =>
           \E b \in 1..Len(out.markers) :
             LET m == out.markers[b]
                 k == call.configs[s].interlayer_edge_insertion_skip
             IN /\ m.ns = EdgeNamespace(s, t)
                /\ NumSegments(m.points) = CeilDiv(Cardinality(q), k + 1)
                /\ \E i \in 1..NumSegments(m.points) :
                     EdgeOfSegment(m.points, i) = call.edges[first]

\* C2: the aggregators return one batch per (source layer, target layer) pair
\* that has a drawn edge, and every segment of the batch of namespace
\* ns_prefix + s + "_" + t comes from an edge from layer s to layer t
C2_BatchPerLayerPair ==
  AggregatorReturned =>
    /\ \A b \in 1..Len(out.markers) :
         \A i \in 1..NumSegments(out.markers[b].points) :
           NamespaceOfEdge(EdgeOfSegment(out.markers[b].points, i)) =
             out.markers[b].ns
    /\ \A b, c \in 1..Len(out.markers) :
         out.markers[b].ns = out.markers[c].ns => b = c

\* C3: makeLayerEdgeMarkers terminates and returns a batch for every layer,
\* every insertion skip and every filter: a call that has entered the loop
\* returns
C3_LayerEdgeMarkersTerminates == (pc = "lem_loop") ~> (pc = "done")

\* C4: every batch the aggregators return has at least one segment; a batch
\* exists only for a namespace that has a qualifying edge, and only if an
\* edge of that namespace is drawn in it
C4_NoEmptyBatch ==
  AggregatorReturned =>
    \A b \in 1..Len(out.markers) :
      LET m == out.markers[b]
      IN /\ NumSegments(m.points) >= 1
         /\ \E i \in 1..Len(call.edges) :
              Qualifies(call.edges[i]) /\ NamespaceOfEdge(call.edges[i]) = m.ns
         /\ \E i \in 1..NumSegments(m.points) :
              NamespaceOfEdge(EdgeOfSegment(m.points, i)) = m.ns

\* three edges of which some are sampled away or gated, and one batch
C4_Witness ==
  /\ AggregatorReturned
  /\ Len(call.edges) = 3
  /\ Len(out.markers) = 1
  /\ NumSegments(out.markers[1].points) = 1
  /\ \A i \in 1..3 : Qualifies(call.edges[i])

\* C5: every segment of every batch the aggregators return comes from an
\* edge of the graph that passes every gating condition: the filter and the
\* visible configs of both layers in makeGraphEdgeMarkers; the visible config
\* of a static endpoint and the dynamic config with visualize and
\* visualize_interlayer_edges of a dynamic endpoint in
\* makeDynamicGraphEdgeMarkers
C5_OnlyGatedEdgesDrawn ==
  AggregatorReturned =>
    \A b \in 1..Len(out.markers) :
      \A i \in 1..NumSegments(out.markers[b].points) :
        LET e == EdgeOfSegment(out.markers[b].points, i)
        IN /\ \E j \in 1..Len(call.edges) : call.edges[j] = e
           /\ Qualifies(e)

\* a graph of which one edge is drawn and another one fails the gating
C5_Witness ==
  /\ AggregatorReturned
  /\ Len(out.markers) >= 1
  /\ \E i \in 1..Len(call.edges) : ~Qualifies(call.edges[i])
  /\ \E i \in 1..Len(call.edges) :
       /\ Qualifies(call.edges[i])
       /\ \E b \in 1..Len(out.markers) :
            \E j \in 1..NumSegments(out.markers[b].points) :
              EdgeOfSegment(out.markers[b].points, j) = call.edges[i]

\* the batches a returned call hands back
ResultMarkers ==
  IF call.fn \in {"makeGraphEdgeMarkers", "makeDynamicGraphEdgeMarkers",
                  "makeGvdWireframe", "makeEllipsoidMarkers",
                  "makeDynamicLabelMarker"}
  THEN {out.markers[b] : b \in 1..Len(out.markers)}
  ELSE IF call.fn = "getDistanceColor" THEN {}
  ELSE {out}

\* C7: in every line-list batch a builder returns, the vertex sequence has
\* even length and the color sequence has length 0, 1 or that of the vertex
\* sequence
C7_LineListShape ==
  pc = "done" =>
    \A m \in ResultMarkers :
      m.type = "LINE_LIST" =>
        /\ Len(m.points) % 2 = 0
        /\ Len(m.colors) \in {0, 1, Len(m.points)}

\* edges to the bounding boxes of two nodes: 10 segments, 20 colors
C7_Witness ==
  /\ Returned("makeEdgesToBoundingBoxes")
  /\ Len(out.points) = 20
  /\ Len(out.colors) = 20

\* C6: for one box addWireframeToMarker emits exactly 12 segments, pairwise
\* distinct as undirected corner pairs, none joining a corner to itself, and
\* they are exactly the pairs of corners 0..7 whose indices differ in one bit;
\* makeLayerWireframeBoundingBoxes emits them for every node that passes the
\* filter and nothing for the others
C6_WireframeTwelveEdges ==
  Returned("makeLayerWireframeBoundingBoxes") =>
    LET pts == out.points
        Pairs(id) == {{pts[2 * i - 1].i, pts[2 * i].i} : i \in SegmentsOfNode(pts, id)}
        OneBitPairs ==
          {{q[1], q[2]} :
             q \in {r \in (0..7) \X (0..7) : PopCount(BitXor(r[1], r[2])) = 1}}
        passing == {j \in 1..Len(call.layer) : ~Rejected(call.filter, call.layer[j].id)}
    IN /\ Len(pts) = 2 * 12 * Cardinality(passing)
       /\ \A i \in 1..NumSegments(pts) :
            /\ pts[2 * i - 1].k = "corner" /\ pts[2 * i].k = "corner"
            /\ pts[2 * i - 1].n = pts[2 * i].n
            /\ pts[2 * i - 1].i # pts[2 * i].i
       /\ \A j \in 1..Len(call.layer) :
            IF j \in passing
            THEN /\ Cardinality(SegmentsOfNode(pts, call.layer[j].id)) = 12
                 /\ Cardinality(Pairs(call.layer[j].id)) = 12
                 /\ Pairs(call.layer[j].id) = OneBitPairs
            ELSE SegmentsOfNode(pts, call.layer[j].id) = {}

\* a wireframe of two boxes, one node having been filtered out
C6_Witness ==
  /\ Returned("makeLayerWireframeBoundingBoxes")
  /\ Len(call.layer) = 3
  /\ call.filter.on
  /\ NumSegments(out.points) = 24

\* C8: makeLayerEllipseBoundaries emits exactly 20 segments (40 points and 40
\* colors) for every node whose boundary has more than one point and none for
\* the others, and within a node the end of segment i is the start of i + 1
C8_EllipseSegments ==
  Returned("makeLayerEllipseBoundaries") =>
    LET pts == out.points
        big == {j \in 1..Len(call.layer) : call.layer[j].boundary > 1}
    IN /\ NumSegments(pts) = 20 * Cardinality(big)
       /\ Len(pts) = 40 * Cardinality(big)
       /\ Len(out.colors) = 40 * Cardinality(big)
       /\ \A j \in 1..Len(call.layer) :
            Cardinality(SegmentsOfNode(pts, call.layer[j].id)) =
              IF j \in big THEN 20 ELSE 0
       /\ \A i \in 1..(NumSegments(pts) - 1) :
            pts[2 * i].n = pts[2 * i + 1].n => pts[2 * i] = pts[2 * i + 1]
       /\ \A i \in 1..NumSegments(pts) : pts[2 * i - 1].n = pts[2 * i].n

\* two ellipses and a node without one
C8_Witness ==
  /\ Returned("makeLayerEllipseBoundaries")
  /\ Len(call.layer) = 3
  /\ NumSegments(out.points) = 40

\* C9: in the three boundary builders a node whose boundary has 0 or 1 points
\* contributes no point and no color, and the points and colors are those of
\* the layer without the degenerate nodes
C9_DegenerateSkipped ==
  /\ Returned("makeLayerEllipseBoundaries") =>
       LET ref == makeLayerEllipseBoundaries(call.config, WithoutDegenerate(call.layer))
       IN out.points = ref.points /\ out.colors = ref.colors
  /\ Returned("makeLayerPolygonEdges") =>
       LET ref == makeLayerPolygonEdges(call.config, WithoutDegenerate(call.layer))
       IN out.points = ref.points /\ out.colors = ref.colors
  /\ Returned("makeLayerPolygonBoundaries") =>
       LET ref == makeLayerPolygonBoundaries(call.config, WithoutDegenerate(call.layer))
       IN out.points = ref.points /\ out.colors = ref.colors
  /\ (\/ Returned("makeLayerEllipseBoundaries")
      \/ Returned("makeLayerPolygonEdges")
      \/ Returned("makeLayerPolygonBoundaries")) =>
       \A j \in 1..Len(call.layer) :
         call.layer[j].boundary <= 1 =>
           /\ \A i \in 1..Len(out.points) : out.points[i].n # call.layer[j].id
           /\ \A i \in 1..Len(out.colors) :
                out.colors[i].kind = "node" => out.colors[i].n # call.layer[j].id

\* the layer of the scenario: boundaries of 0, 1 and 4 points, the polygon of
\* the third node drawn
C9_Witness ==
  /\ Returned("makeLayerPolygonBoundaries")
  /\ Len(call.layer) = 3
  /\ call.layer[1].boundary = 0
  /\ call.layer[2].boundary = 1
  /\ call.layer[3].boundary = 4
  /\ call.config.boundary_use_node_color
  /\ NumSegments(out.points) = 4

\* C10: getDistanceColor returns the default color whenever max <= min;
\* otherwise a colormap lookup at a ratio within [0, 1] that is
\* (distance - min) / (max - min) clamped to [0, 1], and 0 when that quotient
\* is not finite
C10_DistanceColor ==
  Returned("getDistanceColor") =>
    LET min == call.min
        max == call.max
        distance == call.distance
    IN IF DLeq(max, min) THEN out = DefaultColor
       ELSE /\ out.kind = "cmap"
            /\ 0 <= out.n /\ out.n <= out.d /\ out.d >= 1
            /\ IF isfinite(min) /\ isfinite(max) /\ isfinite(distance)
               THEN LET num == distance.n - min.n
                        den == max.n - min.n
                    IN IF num <= 0 THEN out.n = 0
                       ELSE IF num >= den THEN out.n = out.d
                       ELSE out.n * den = num * out.d
               ELSE out.n = 0

\* a distance strictly between the limits: a ratio strictly between 0 and 1
C10_Witness ==
  /\ Returned("getDistanceColor")
  /\ out.kind = "cmap"
  /\ 0 < out.n
  /\ out.n < out.d

\* the batches of a result in order, each as namespace, vertices and colors
BatchesOf(result) ==
  IF "markers" \in DOMAIN result
  THEN [b \in 1..Len(result.markers) |->
          <<result.markers[b].ns, result.markers[b].points,
            result.markers[b].colors>>]
  ELSE << <<result.ns, result.points, result.colors>> >>

\* C11: a second call of makeGraphEdgeMarkers, makeDynamicGraphEdgeMarkers or
\* makeLayerEdgeMarkers with the graph and configs of the first returns the
\* same batches in the same order, with the same namespaces, vertex sequences
\* and color sequences
C11_SecondCallEqual ==
  (/\ pc = "done"
   /\ calls = 2
   /\ call.fn \in {"makeGraphEdgeMarkers", "makeDynamicGraphEdgeMarkers",
                   "makeLayerEdgeMarkers"}) =>
    BatchesOf(out) = BatchesOf(first_out)

\* C12: makeMeshEdgesMarker returns an empty batch when the graph has no
\* mesh; with a mesh of zero vertices a node that has mesh connections
\* contributes its centroid-to-break-point segment and nothing else; and no
\* mesh position is looked up at an index that is not below the vertex count
C12_MeshNeverFails ==
  Returned("makeMeshEdgesMarker") =>
    /\ ~call.mesh.present => (out.points = <<>> /\ out.colors = <<>>)
    /\ (call.mesh.present /\ call.mesh.numVertices = 0) =>
         /\ \A j \in 1..Len(call.layer) :
              LET segs == SegmentsOfNode(out.points, call.layer[j].id)
              IN IF Len(call.layer[j].pcl_mesh_connections) = 0 THEN segs = {}
                 ELSE /\ Cardinality(segs) = 1
                      /\ \A i \in segs :
                           /\ out.points[2 * i - 1].k = "position"
                           /\ out.points[2 * i].k = "break"
         /\ Len(out.colors) = Len(out.points)
    /\ \A i \in 1..Len(out.points) :
         out.points[i].k = "mesh" => out.points[i].n < call.mesh.numVertices

\* the scenario: a mesh without vertices and a node with 3 mesh connections,
\* of which the break-point segment alone is drawn
C12_Witness ==
  /\ Returned("makeMeshEdgesMarker")
  /\ call.mesh.present
  /\ call.mesh.numVertices = 0
  /\ Len(call.layer) = 1
  /\ Len(call.layer[1].pcl_mesh_connections) = 3
  /\ call.config.interlayer_edge_insertion_skip = 0
  /\ NumSegments(out.points) = 1

\* C13: in the collection one call of makeGraphEdgeMarkers,
\* makeDynamicGraphEdgeMarkers, makeGvdWireframe or makeEllipsoidMarkers
\* returns, no two batches have the same namespace and id: the aggregators
\* give every batch the id 0 and a namespace of its own, makeGvdWireframe the
\* namespaces ns_nodes and ns_edges, makeEllipsoidMarkers the ids 0, 1, 2, ...
\* in one namespace
C13_UniqueNamespaceId ==
  (/\ pc = "done"
   /\ call.fn \in {"makeGraphEdgeMarkers", "makeDynamicGraphEdgeMarkers",
                   "makeGvdWireframe", "makeEllipsoidMarkers"}) =>
    LET ms == out.markers
    IN /\ \A b, c \in 1..Len(ms) :
            (ms[b].ns = ms[c].ns /\ ms[b].id = ms[c].id) => b = c
       /\ call.fn \in {"makeGraphEdgeMarkers", "makeDynamicGraphEdgeMarkers"} =>
            \A b, c \in 1..Len(ms) :
              /\ ms[b].id = 0
              /\ ms[b].ns = ms[c].ns => b = c
       /\ call.fn = "makeGvdWireframe" =>
            /\ Len(ms) <= 2
            /\ Len(ms) >= 1 => ms[1].ns = <<"ns", "_nodes">>
            /\ Len(ms) = 2 => ms[2].ns = <<"ns", "_edges">>
       /\ call.fn = "makeEllipsoidMarkers" =>
            \A b \in 1..Len(ms) : ms[b].ns = <<"ns">> /\ ms[b].id = b - 1

\* three frontier places, numbered 0, 1 and 2
C13_Witness ==
  /\ Returned("makeEllipsoidMarkers")
  /\ Len(out.markers) = 3
  /\ out.markers[3].id = 2
  /\ out.markers[1].ns = out.markers[3].ns

\* C14: no call of a builder changes state that outlives the call: a step of
\* any builder, makeTextMarker and makeTextMarkerNoHeight among them, leaves
\* the parameter server and the static random generator as it found them (the
\* graph and the configs are arguments no builder assigns)
C14_NoStateOutlivesCall == [][params' = params /\ gen' = gen]_vars

\* the batch of a boundary or bounding-box builder is displaced by the layer's
\* z offset: its pose is, or one of its vertices is
DisplacedByZOffset(m) ==
  \/ m.pose_z # 0
  \/ m.pose.z # 0
  \/ \E i \in 1..Len(m.points) : m.points[i].z # 0

\* C15: the batch of a boundary builder called with collapse_boundary set, and
\* of a bounding-box builder called with collapse_bounding_box set, is not
\* displaced by getZOffset, neither in its pose nor in a vertex; with the flag
\* clear a batch that has vertices is displaced by getZOffset
C15_CollapseMeansNoOffset ==
  /\ (\/ Returned("makeLayerEllipseBoundaries")
      \/ Returned("makeLayerPolygonBoundaries")
      \/ Returned("makeLayerPolygonEdges")) =>
       IF call.config.collapse_boundary THEN ~DisplacedByZOffset(out)
       ELSE out.points # <<>> => DisplacedByZOffset(out)
  /\ (\/ Returned("makeLayerWireframeBoundingBoxes")
      \/ Returned("makeBoundingBoxMarker")
      \/ Returned("makeEdgesToBoundingBoxes")) =>
       IF call.config.collapse_bounding_box THEN ~DisplacedByZOffset(out)
       ELSE (out.points # <<>> \/ out.type = "CUBE") => DisplacedByZOffset(out)

\* the points of the edges at the positions 0, k + 1, 2 (k + 1), ... of edges
StridePoints(edges, k) ==
  LET Body(j) == [points |-> LayerEdgeSegment(edges[(j - 1) * (k + 1) + 1]).points,
                  colors |-> <<>>]
  IN ForEach(Body, [j \in 1..CeilDiv(Len(edges), k + 1) |-> j]).points

\* C16: makeLayerEdgeMarkers without a filter, on E edges with insertion skip
\* k, returns exactly the edges at the positions 0, k + 1, 2 (k + 1), ...
\* below E, in order; while it runs the cursor stays within 0..E, has drawn
\* the sampled edges below it and nothing else, and the call does not fault
C16_StrideWithinSequence ==
  (call.fn = "makeLayerEdgeMarkers" /\ ~call.filter.on) =>
    LET k == call.config.intralayer_edge_insertion_skip
        E == Len(call.edges)
    IN /\ pc # "fault"
       /\ pc = "lem_loop" =>
            /\ edge_iter \in 0..E
            /\ NumSegments(marker.points) = CeilDiv(edge_iter, k + 1)
       /\ pc = "done" =>
            /\ NumSegments(out.points) = CeilDiv(E, k + 1)
            /\ out.points = StridePoints(call.edges, k)

\* C17: in makeGraphEdgeMarkers the two color entries of a drawn segment are
\* equal, and they are the color of the source node when the config of the
\* source layer has interlayer_edge_use_color and use_edge_source set, the
\* color of the target node when it has interlayer_edge_use_color set and
\* use_edge_source clear, and the default color when interlayer_edge_use_color
\* is clear
C17_EdgeColors ==
  Returned("makeGraphEdgeMarkers") =>
    \A b \in 1..Len(out.markers) :
      LET m == out.markers[b]
      IN /\ Len(m.colors) = Len(m.points)
         /\ \A i \in 1..NumSegments(m.points) :
              LET e == EdgeOfSegment(m.points, i)
                  config == call.configs[NodeLayer[e.source]]
                  c == m.colors[2 * i]
              IN /\ m.colors[2 * i - 1] = c
                 /\ IF ~config.interlayer_edge_use_color
                    THEN c.kind = DefaultColor.kind
                    ELSE /\ c.kind = "node"
                         /\ c.n = IF config.use_edge_source THEN e.source
                                  ELSE e.target

\* an edge drawn in the color of its target, the config of the target layer
\* asking for the color of the source
C17_Witness ==
  /\ Returned("makeGraphEdgeMarkers")
  /\ \E b \in 1..Len(out.markers) :
       \E i \in 1..NumSegments(out.markers[b].points) :
         LET e == EdgeOfSegment(out.markers[b].points, i)
         IN /\ out.markers[b].colors[2 * i].kind = "node"
            /\ out.markers[b].colors[2 * i].n = e.target
            /\ call.configs[NodeLayer[e.target]].use_edge_source
            /\ ~call.configs[NodeLayer[e.source]].use_edge_source

\* what a point is a position of, without the offsets added to it
PlainPoint(p) == <<p.k, p.n, p.i>>

\* the fan of one node as a sequence of plain points: the centroid-to-break
\* segment, then a break-to-vertex segment for every connection at a list
\* position 0, k + 1, 2 (k + 1), ... whose index is below numVertices
FanOfNode(node, k, numVertices) ==
  LET conns == node.pcl_mesh_connections
      M == Len(conns)
      RECURSIVE From(_)
      From(p) ==
        IF p >= M THEN <<>>
        ELSE (IF conns[p + 1] < numVertices
              THEN << <<"break", node.id, 0>>, <<"mesh", conns[p + 1], p + 1>> >>
              ELSE <<>>) \o From(p + k + 1)
  IN IF M = 0 THEN <<>>
     ELSE << <<"position", node.id, 0>>, <<"break", node.id, 0>> >> \o From(0)

\* C18: with a mesh present, makeMeshEdgesMarker draws for every node with
\* M >= 1 mesh connections and insertion skip k the centroid-to-break-point
\* segment followed by a break-point-to-vertex segment for each connection at
\* list position 0, k + 1, 2 (k + 1), ... below M whose index is within the
\* mesh, in that order; an index out of range is dropped without changing
\* which positions are sampled, and a node without connections draws nothing
C18_MeshFan ==
  (Returned("makeMeshEdgesMarker") /\ call.mesh.present) =>
    LET k == call.config.interlayer_edge_insertion_skip
        RECURSIVE Fans(_)
        Fans(j) == IF j > Len(call.layer) THEN <<>>
                   ELSE FanOfNode(call.layer[j], k, call.mesh.numVertices)
                          \o Fans(j + 1)
    IN /\ [i \in 1..Len(out.points) |-> PlainPoint(out.points[i])] = Fans(1)
       /\ Len(out.colors) = Len(out.points)

\* three connections and skip 1: the positions 0 and 2 are sampled, the index
\* at position 0 is out of range and the one at position 2 is drawn
C18_Witness ==
  /\ Returned("makeMeshEdgesMarker")
  /\ call.mesh.present
  /\ call.mesh.numVertices = 1
  /\ call.config.interlayer_edge_insertion_skip = 1
  /\ Len(call.layer) = 1
  /\ call.layer[1].pcl_mesh_connections = <<1, 0, 0>>
  /\ NumSegments(out.points) = 2
  /\ out.points[4].i = 3

\* C19: of the nodes of a layer of places, makePlaceCentroidMarkers emits one
\* point for exactly those with real_place set and makeEllipsoidMarkers one
\* batch for exactly those with real_place clear: every node is drawn by
\* exactly one of the two, and points and batches add up to the nodes
C19_PlacePartition ==
  (Returned("makeEllipsoidMarkers") /\ calls = 2) =>
    LET points == first_out.points
        batches == out.markers
        PointsOf(id) == {i \in 1..Len(points) : points[i].n = id}
        BatchesOfNode(id) == {b \in 1..Len(batches) : batches[b].pose.n = id}
    IN /\ Len(points) + Len(batches) = Len(call.layer)
       /\ \A j \in 1..Len(call.layer) :
            LET node == call.layer[j]
            IN IF node.real_place
               THEN /\ Cardinality(PointsOf(node.id)) = 1
                    /\ BatchesOfNode(node.id) = {}
               ELSE /\ PointsOf(node.id) = {}
                    /\ Cardinality(BatchesOfNode(node.id)) = 1

\* a layer of two real places and a frontier between them
C19_Witness ==
  /\ Returned("makeEllipsoidMarkers")
  /\ calls = 2
  /\ Len(call.layer) = 3
  /\ call.layer[1].real_place
  /\ ~call.layer[2].real_place
  /\ call.layer[3].real_place
  /\ Len(first_out.points) = 2
  /\ Len(out.markers) = 1

\* C20: for a node whose boundary has n > 1 vertices makeLayerPolygonBoundaries
\* emits exactly n segments, the i-th (from 0) running from boundary vertex
\* (i - 1) mod n to boundary vertex i: every vertex starts exactly one segment
\* and ends exactly one, and the loop is closed
C20_PolygonClosedLoop ==
  Returned("makeLayerPolygonBoundaries") =>
    \A j \in 1..Len(call.layer) :
      LET node == call.layer[j]
          n == node.boundary
          pts == out.points
          segs == SegmentsOfNode(pts, node.id)
          base == CHOOSE s \in segs : \A t \in segs : s <= t
      IN n > 1 =>
           /\ Cardinality(segs) = n
           /\ \A s \in segs :
                /\ pts[2 * s - 1].k = "boundary" /\ pts[2 * s].k = "boundary"
                /\ pts[2 * s].n = node.id
                /\ pts[2 * s - 1].i = (s - base + n - 1) % n
                /\ pts[2 * s].i = s - base
           /\ \A v \in 0..(n - 1) :
                /\ Cardinality({s \in segs : pts[2 * s - 1].i = v}) = 1
                /\ Cardinality({s \in segs : pts[2 * s].i = v}) = 1

\* a triangle: three segments, the first one starting at the last vertex
C20_Witness ==
  /\ Returned("makeLayerPolygonBoundaries")
  /\ Len(call.layer) = 1
  /\ call.layer[1].boundary = 3
  /\ NumSegments(out.points) = 3
  /\ out.points[1].i = 2
  /\ out.points[6].i = 2

\* C21: makeEdgesToBoundingBoxes emits nothing for a node the filter rejects
\* and, for every other node, exactly 5 segments with 10 points and 10 colors:
\* centroid to break point, then break point to the corners 4, 5, 6 and 7;
\* no segment joins two corners and none reaches a corner 0..3
C21_RadialEdges ==
  Returned("makeEdgesToBoundingBoxes") =>
    LET pts == out.points
        Kept == {j \in 1..Len(call.layer) :
                   ~Rejected(call.filter, call.layer[j].id)}
    IN /\ Len(pts) = 10 * Cardinality(Kept)
       /\ Len(out.colors) = 10 * Cardinality(Kept)
       /\ \A p \in 1..Len(pts) : \E j \in Kept : pts[p].n = call.layer[j].id
       /\ \A j \in Kept :
            LET id == call.layer[j].id
                segs == SegmentsOfNode(pts, id)
                base == CHOOSE s \in segs : \A t \in segs : s <= t
                Seg(i) == <<pts[2 * (base + i) - 1], pts[2 * (base + i)]>>
            IN /\ Cardinality(segs) = 5
               /\ segs = base..(base + 4)
               /\ \A p \in (2 * base - 1)..(2 * base + 8) :
                    out.colors[p] = makeColorMsg(NodeColor(id), "bounding_box_alpha")
               /\ Seg(0)[1].k = "position" /\ Seg(0)[2].k = "break"
               /\ Seg(0)[2].n = id
               /\ \A i \in 1..4 :
                    /\ Seg(i)[1].k = "break"
                    /\ Seg(i)[2] = getPointFromMatrix(id, 3 + i)

\* two object nodes, the first rejected by the filter: the five segments of
\* the second are all there is
C21_Witness ==
  /\ Returned("makeEdgesToBoundingBoxes")
  /\ Len(call.layer) = 2
  /\ call.filter.on /\ call.filter.rejected = {1}
  /\ Len(out.points) = 10 /\ Len(out.colors) = 10
  /\ out.points[1].n = 2 /\ out.points[10].i = 7

\* C22: in makeDynamicGraphEdgeMarkers every keyed lookup made for an edge
\* that passed the visibility gating finds its key, so that the call returns
\* a collection and never ends in std::out_of_range
C22_DynamicLookupsFound ==
  Returned("makeDynamicGraphEdgeMarkers") => ~out.thrown

\* C23: makeDynamicLabelMarker looks up the position at numNodes - 1, and that
\* index i satisfies 0 <= i < numNodes for every dynamic layer, the empty one
\* included, so that the label sits at the most recent node
C23_LabelIndexValid ==
  Returned("makeDynamicLabelMarker") =>
    /\ SizeLess(out.index, numNodes(call.layer))
    /\ ~out.thrown
    /\ Len(out.markers) = 1
    /\ Len(call.layer) > 0 =>
         out.markers[1].pose.n = call.layer[Len(call.layer)].id

====
